---------------------------- MODULE Spec2Model ----------------------------
(***************************************************************************)
(* Model of the recording core of audio_recorder_armed.py                  *)
(* (class AudioRecorderRX11Armed): the capture callback, the collector     *)
(* thread, start/stop of a recording, saving, and silence trimming.        *)
(*                                                                         *)
(* Audio representation.  A channel of a block (or of a 2048-sample frame  *)
(* of a buffer) is represented by its RMS amplitude in units of 1e-6 of    *)
(* full scale; calculate_db turns it into decibels.  A buffer is a         *)
(* sequence of whole frames followed by `tail` further samples (fewer      *)
(* than one frame), so  len(buffer) = Len(frames) * frame_length + tail.   *)
(* Times are wall-clock times in units of 1/sample_rate seconds; durations *)
(* of the settings are in milliseconds.                                    *)
(***************************************************************************)
EXTENDS Integers, Sequences, FiniteSets, TLC

\* ------------------------------------------------------------------ bounds
\* Whole frames in a buffer handed to trim_silence on its own.
MaxFrames == 3
\* Blocks the input stream delivers in a run with free input.
MaxBlocks == 2
\* Recording sessions requested in a run.
MaxSessions == 2
\* Button presses and hotkeys in a run.
MaxPresses == 2
\* Device selections in a run of the monitoring model.
MaxDeviceChanges == 2
\* Clicks on the Arm checkbox in a run of the monitoring model.
MaxArmToggles == 2
\* Blocks the input stream delivers in a Scenario C run.
ScenarioBlocks == 100
\* Blocks the collector thread may lag behind in a Scenario C run.
ScenarioLag == 2
\* Blocks the input stream delivers in a run recorded by hand.
ManualBlocks == 26

\* ------------------------------------------------------- program constants
frame_length == 2048
sample_rate == 44100
blocksize == 2048
DB_FLOOR == -100
silence_threshold_db == -40
default_silence_duration == 2000
min_recording_duration == 1000
default_trim_threshold_db == -50
default_monitor_volume == 70
\* close_thread.join(timeout=1.0), in milliseconds.
join_timeout == 1000

None == "None"
\* self.input_device_index / self.output_device_index = None (lines 39-40).
NoDevice == -1

Max(a, b) == IF a >= b THEN a ELSE b
Min(a, b) == IF a <= b THEN a ELSE b

\* RMS amplitudes (1e-6 of full scale) that the free runs feed:
\* 0 (digital silence), 0.001, 0.01, 0.1 and 0.316228.
Amps == {0, 1000, 10000, 100000, 316228}

\* Powers of ten, and 10^(k/20) * 1e5 for k = 0..19: the amplitudes, within
\* a decade, of the whole decibels.
Pow10 == <<1, 10, 100, 1000, 10000, 100000, 1000000>>
Roots == <<100000, 112202, 125893, 141254, 158489, 177828, 199526, 223872,
           251189, 281838, 316228, 354813, 398107, 446684, 501187, 562341,
           630957, 707946, 794328, 891251>>

\* The decade of a in 1..1000000, and a scaled into 100000..999999.
Decade(a) == CHOOSE e \in 0..6 : Pow10[e + 1] <= a /\ (e = 6 \/ a < Pow10[e + 2])
Mantissa(a) == IF Decade(a) = 6 THEN 100000 ELSE a * Pow10[6 - Decade(a)]

\* 20 * log10(rms) for rms = a * 1e-6, a in 1..1000000, rounded up to a
\* whole decibel: exact on the whole decibels, and "level > threshold"
\* against a whole-decibel threshold is decided as the code decides it.
Log10Db(a) ==
    20 * (Decade(a) - 6) + Cardinality({k \in 1..20 : Roots[k] < Mantissa(a)})

\* calculate_db: a channel is [n |-> number of samples, rms |-> amplitude].
calculate_db(ch) ==
    IF ch.n = 0 THEN DB_FLOOR
    ELSE IF ch.rms > 0 THEN Log10Db(ch.rms) ELSE DB_FLOOR

\* One channel of a block or frame: n samples of RMS amplitude rms.
Channel(n, rms) == [n |-> n, rms |-> rms]

\* A block, and a frame of a buffer, is [id, l, r]: the RMS amplitude of its
\* left and right channel, and id, the sequence number of the captured
\* block the samples come from (0 in a buffer that was not captured).
Block(id, amp) == [id |-> id, l |-> amp[1], r |-> amp[2]]

\* ------------------------------------------------------------ trim_silence
\* Level of one 2048-sample stereo frame: the louder channel.
FrameLevel(frame) ==
    Max(calculate_db(Channel(frame_length, frame.l)),
        calculate_db(Channel(frame_length, frame.r)))

BufLen(b) == Len(b.frames) * frame_length + b.tail

EmptyBuf == [frames |-> <<>>, tail |-> 0]

\* audio_data[start_sample:end_sample] for a frame-aligned start_sample;
\* like a numpy slice, the end is clamped to the length of the buffer.
Slice(b, start_sample, end_sample) ==
    LET e == Min(end_sample, BufLen(b))
        f0 == start_sample \div frame_length
        f1 == e \div frame_length
    IN  IF start_sample >= e THEN EmptyBuf
        ELSE [frames |-> SubSeq(b.frames, f0 + 1, Min(f1, Len(b.frames))),
              tail |-> IF f1 >= Len(b.frames) THEN e - Len(b.frames) * frame_length
                       ELSE 0]

FrameLevels(b) == [i \in 1..Len(b.frames) |-> FrameLevel(b.frames[i])]

\* Mutation of StartFrame: the frame after the first non-silent one.
StartFrameSkipsFirst(levels, trim_start, thr) ==
    LET loud == {i \in DOMAIN levels : levels[i] > thr}
    IN  IF trim_start /\ loud # {}
        THEN CHOOSE i \in loud : \A j \in loud : i <= j
        ELSE 0

\* Lines 873-879: 0-based index of the first frame above the threshold.
StartFrame(levels, trim_start, thr) ==
    LET loud == {i \in DOMAIN levels : levels[i] > thr}
    IN  IF trim_start /\ loud # {}
        THEN (CHOOSE i \in loud : \A j \in loud : i <= j) - 1
        ELSE 0

\* Mutation of EndFrame: the last non-silent frame itself is left out.
EndFrameExcludesLast(levels, trim_end, thr) ==
    LET loud == {i \in DOMAIN levels : levels[i] > thr}
    IN  IF trim_end /\ loud # {}
        THEN (CHOOSE i \in loud : \A j \in loud : i >= j) - 1
        ELSE Len(levels)

\* Lines 881-887: one past the 0-based index of the last frame above it.
EndFrame(levels, trim_end, thr) ==
    LET loud == {i \in DOMAIN levels : levels[i] > thr}
    IN  IF trim_end /\ loud # {}
        THEN CHOOSE i \in loud : \A j \in loud : i >= j
        ELSE Len(levels)

\* Mutation of EndSample: the end taken one frame too far, unclamped.
EndSampleOneFrameLate(end_frame, b) == (end_frame + 1) * frame_length

\* Line 895.
EndSample(end_frame, b) == Min(end_frame * frame_length, BufLen(b))

\* trim_silence: the kept sample range and the returned buffer.
trim_silence(b, trim_start, trim_end, thr) ==
    LET whole == [start_sample |-> 0, end_sample |-> BufLen(b), data |-> b]
        num_frames == BufLen(b) \div frame_length
    IN  IF BufLen(b) = 0 THEN whole
        ELSE IF num_frames = 0 THEN whole
        ELSE LET levels == FrameLevels(b)
                 start_frame == StartFrame(levels, trim_start, thr)
                 end_frame == EndFrame(levels, trim_end, thr)
                 start_sample == start_frame * frame_length
                 end_sample == EndSample(end_frame, b)
             IN  IF start_frame >= end_frame
                 THEN [start_sample |-> 0, end_sample |-> 0, data |-> EmptyBuf]
                 ELSE [start_sample |-> start_sample, end_sample |-> end_sample,
                       data |-> Slice(b, start_sample, end_sample)]


\* ------------------------------------------------------------------- state
VARIABLES
    is_recording,          \* self.is_recording
    auto_mode,             \* self.auto_mode
    in_sound_segment,      \* self.in_sound_segment
    current_level,         \* <<self.current_level_l, self.current_level_r>>
    audio_queue,           \* self.audio_queue
    recorded_frames,       \* self.recorded_frames
    current_filename,      \* self.current_filename
    counter_var,           \* self.counter_var
    recording_start_time,  \* self.recording_start_time
    silence_duration,      \* self.silence_duration, in ms
    trim_silence_start,    \* self.trim_silence_start
    trim_silence_end,      \* self.trim_silence_end
    trim_threshold_db,     \* self.trim_threshold_db
    buttons,               \* state of record_button / stop_button
    after_queue,           \* callbacks scheduled with root.after(0, ...)
    gui,                   \* the Tk main-loop thread
    hk,                    \* the keyboard hotkey thread
    rec_threads,           \* the recording_thread threads, in spawn order
    save_threads,          \* the save_recording threads, in spawn order
    files,                 \* audio files on disk
    now,                   \* wall clock
    delivered,             \* blocks delivered to input_callback so far
    presses,               \* button presses and hotkeys so far
    loud_run,              \* Scenario C: length of the loud run
    sessions,              \* start bodies executed so far
    active_starts,         \* start bodies executed since the last stop body
    captured,              \* ids of the blocks delivered while recording, this session
    last_stop_request,     \* what the collector saw when it last requested a stop
    last_save,             \* what the save_recording that finished last did
    is_armed,              \* self.is_armed
    is_monitoring,         \* self.is_monitoring
    monitor_queue,         \* self.monitor_queue
    monitor_volume,        \* self.monitor_volume, in percent
    input_device_index,    \* self.input_device_index
    output_device_index,   \* self.output_device_index
    input_stream,          \* self.input_stream: 0 (None) or a stream
    output_stream,         \* self.output_stream: 0 (None) or a stream
    streams,               \* the streams that are open
    tasks,                 \* calls of the start/stop/restart methods in progress
    events,                \* device changes, arm toggles and output callbacks so far
    outdata,               \* what output_callback last wrote, and from what
    faults,                \* exceptions raised inside the callbacks so far
    returned,              \* the state in which a start method last returned
    settings,              \* what load_settings found in the settings file
    indata,                \* update_levels on its own: the block measured
    layout,                \* Scenario B: lead-in, tone and tail of the buffer
    audio_data,            \* trim_silence on its own: the input buffer
    trimmed,               \* ... its result
    retrimmed              \* ... the result of trimming the result

monstate == <<is_armed, is_monitoring, monitor_volume, input_device_index,
              output_device_index, input_stream, output_stream, streams, tasks,
              events, outdata, faults, returned, settings>>
recvars == <<is_recording, auto_mode, in_sound_segment, current_level, audio_queue,
             recorded_frames, current_filename, counter_var, recording_start_time,
             silence_duration, buttons, after_queue, gui, hk, rec_threads,
             save_threads, files, now, delivered, presses, loud_run, sessions,
             active_starts, captured, last_stop_request, last_save, monitor_queue,
             monstate>>
trimsettings == <<trim_silence_start, trim_silence_end, trim_threshold_db>>
trimvars == <<indata, layout, audio_data, trimmed, retrimmed>>
vars == <<recvars, trimsettings, trimvars>>

GuiIdle == [pc |-> "idle", origin |-> "none"]
\* The Tk thread back in the main loop after a start_recording that
\* returned at line 735.
GuiStartIgnored == [pc |-> "idle", origin |-> "start_ignored"]

\* A file path is [counter, stamp]: the counter and the timestamp (to the
\* second) of "{prefix}_{counter:04d}_{timestamp}.wav".  NoFile is None.
NoFile == [counter |-> 0, stamp |-> 0]

\* No collector has requested a stop yet; no save_recording has finished.
NoStopRequest == [silence_frames |-> 0, elapsed |-> 0, deferred |-> FALSE,
                  requested |-> FALSE]
NoSave == [expected |-> <<>>, buffer |-> <<>>, empty |-> FALSE,
           outcome |-> "none", wrote |-> FALSE]

\* An open stream made by sd.InputStream ("in") or sd.OutputStream ("out")
\* on the device device: "opened", or "started" (its callback fires).  A
\* handle is the id of a stream, or 0 for None; a closed stream is no longer
\* in streams.
Stream(id, kind, state, device) ==
    [id |-> id, kind |-> kind, state |-> state, device |-> device]

\* Indices of the input devices and of the output devices in the two
\* comboboxes (lines 399-455).
InputDevices == {0, 2}
OutputDevices == {1, 3}

\* A started input stream exists: input_callback fires.
InputActive == \E st \in streams : st.kind = "in" /\ st.state = "started"
\* A started output stream exists: output_callback fires.
OutputActive == \E st \in streams : st.kind = "out" /\ st.state = "started"

NoEvents == [device |-> 0, arm |-> 0, played |-> 0, waited |-> 0]
\* A monitor block of silence from no captured block.
NoBlock == [id |-> 0, l |-> 0, r |-> 0]
NoOutdata == [frames |-> 0, empty |-> TRUE, head |-> NoBlock, written |-> FALSE,
              kept |-> 0, pad |-> 0, block |-> NoBlock]
NoFaults == [caught |-> 0, escaped |-> FALSE, at |-> 0]
NoReturn == [proc |-> "none", failed |-> FALSE, is_monitoring |-> FALSE,
             input_stream |-> 0, is_armed |-> FALSE, delivered |-> 0]

\* The state after __init__ (lines 26-91), apart from the settings that
\* load_settings (lines 1195-1222) may have replaced.
InitRecorder ==
    /\ is_recording = FALSE
    /\ in_sound_segment = FALSE
    /\ current_level = <<DB_FLOOR, DB_FLOOR>>
    /\ audio_queue = <<>>
    /\ recorded_frames = <<>>
    /\ current_filename = NoFile
    /\ counter_var = 1
    /\ recording_start_time = None
    /\ buttons = "idle"
    /\ after_queue = <<>>
    /\ gui = GuiIdle
    /\ hk = "idle"
    /\ rec_threads = <<>>
    /\ save_threads = <<>>
    /\ files = {}
    /\ now = 0
    /\ delivered = 0
    /\ presses = 0
    /\ sessions = 0
    /\ active_starts = 0
    /\ captured = <<>>
    /\ last_stop_request = NoStopRequest
    /\ last_save = NoSave

\* No settings file: load_settings leaves the values of __init__ (lines
\* 1219-1220).
NoSettings == [is_armed |-> FALSE, monitor_volume |-> default_monitor_volume,
               output_device_index |-> NoDevice]

\* Lines 28-31, 39-40, 70, 78-79: not armed, no stream, nothing played.
MonitorConstructed ==
    /\ is_armed = FALSE
    /\ is_monitoring = FALSE
    /\ monitor_queue = <<>>
    /\ input_stream = 0
    /\ output_stream = 0
    /\ streams = {}
    /\ events = NoEvents
    /\ outdata = NoOutdata
    /\ faults = NoFaults
    /\ returned = NoReturn
    /\ settings = NoSettings

\* The monitoring state once the start_input_monitoring scheduled at line
\* 88 has started the input stream of the first input device; no output
\* device is selected.
MonitorRunning ==
    /\ is_armed = FALSE
    /\ is_monitoring = TRUE
    /\ monitor_queue = <<>>
    /\ monitor_volume = default_monitor_volume
    /\ input_device_index = 0
    /\ output_device_index = NoDevice
    /\ input_stream = 1
    /\ output_stream = 0
    /\ streams = {Stream(1, "in", "started", 0)}
    /\ tasks = <<>>
    /\ events = NoEvents
    /\ outdata = NoOutdata
    /\ faults = NoFaults
    /\ returned = NoReturn
    /\ settings = NoSettings

\* No block measured on its own.
NoIndata == [n |-> 0, l |-> 0, r |-> 0, measured |-> FALSE]

\* A buffer that is not one of Scenario B.
NoLayout == [lead |-> 0, tone |-> 0, tail |-> 0, silence |-> 0, amp |-> 0]

\* No run of trim_silence on its own: the empty buffer, nothing trimmed.
NoTrimRun ==
    /\ indata = NoIndata
    /\ layout = NoLayout
    /\ audio_data = EmptyBuf
    /\ trimmed = <<>>
    /\ retrimmed = <<>>


\* ---------------------------------------------------------- input_callback
\* Mutation of max_level: the left channel alone.
max_level_left_only(level) == level[1]

\* Lines 577 and 772: max(self.current_level_l, self.current_level_r).
max_level(level) == Max(level[1], level[2])

\* update_levels (lines 520-529): the level of each channel of a block.
update_levels(amp) ==
    <<calculate_db(Channel(blocksize, amp[1])),
      calculate_db(Channel(blocksize, amp[2]))>>

\* Variables written by nobody once the program runs.
fixed == <<silence_duration, loud_run, trimsettings, trimvars, monstate>>
\* The threads' own positions.
positions == <<gui, hk, rec_threads, save_threads>>
\* What start_body writes, apart from is_recording and buttons.
session_state == <<current_filename, recording_start_time, counter_var, sessions>>

\* Mutation of input_callback: start_recording is scheduled for every
\* block above the threshold, without the test of line 580.
input_callback_reschedules(amp) ==
    LET block == Block(delivered + 1, amp)
        level == update_levels(amp)
        auto == auto_mode /\ ~is_recording
        sound == max_level(level) > silence_threshold_db
    IN  /\ current_level' = level
        /\ audio_queue' = IF is_recording THEN Append(audio_queue, block)
                          ELSE audio_queue
        /\ in_sound_segment' = IF auto THEN sound ELSE in_sound_segment
        /\ after_queue' = IF auto /\ sound
                          THEN Append(after_queue, "start_recording")
                          ELSE after_queue
        /\ captured' = IF is_recording THEN Append(captured, block.id)
                       ELSE captured
        /\ monitor_queue' = IF is_armed THEN Append(monitor_queue, block)
                            ELSE monitor_queue
        /\ delivered' = delivered + 1
        /\ now' = now + blocksize
        /\ UNCHANGED <<is_recording, auto_mode, recorded_frames, buttons, files,
                       presses, active_starts, last_stop_request, last_save,
                       session_state, positions, fixed>>

\* input_callback (lines 558-585) for a block whose channels have the RMS
\* amplitudes amp; one block period passes per block.  The meters drawn
\* from after(0, self.draw_meters) are not modelled.
input_callback(amp) ==
    LET block == Block(delivered + 1, amp)
        level == update_levels(amp)
        auto == auto_mode /\ ~is_recording
        sound == max_level(level) > silence_threshold_db
    IN  /\ current_level' = level
        /\ audio_queue' = IF is_recording THEN Append(audio_queue, block)
                          ELSE audio_queue
        /\ in_sound_segment' = IF auto THEN sound ELSE in_sound_segment
        /\ after_queue' = IF auto /\ sound /\ ~in_sound_segment
                          THEN Append(after_queue, "start_recording")
                          ELSE after_queue
        /\ captured' = IF is_recording THEN Append(captured, block.id)
                       ELSE captured
        /\ monitor_queue' = IF is_armed THEN Append(monitor_queue, block)
                            ELSE monitor_queue
        /\ delivered' = delivered + 1
        /\ now' = now + blocksize
        /\ UNCHANGED <<is_recording, auto_mode, recorded_frames, buttons, files,
                       presses, active_starts, last_stop_request, last_save,
                       session_state, positions, fixed>>

\* Blocks of a run with free input: exactly -40 dB on the left channel
\* only (not above the threshold), and -20 dB on the right channel only.
FreeAmps == {<<10000, 0>>, <<0, 100000>>}

InputCallback ==
    /\ InputActive
    /\ delivered < MaxBlocks
    /\ \E amp \in FreeAmps : input_callback(amp)

\* ------------------------------------------- start_recording, stop_recording
\* Line 764: int(self.silence_duration * self.sample_rate / 2048).
silence_frame_threshold(duration_ms) ==
    (duration_ms * sample_rate) \div (1000 * blocksize)

\* A recording_thread at line 763.
NewRecThread == [pc |-> "loop", silence_frames |-> 0, deferred |-> FALSE]

\* Lines 737-759, after the test of line 734 has let the caller through.
start_body ==
    /\ current_filename' = [counter |-> counter_var, stamp |-> now \div sample_rate]
    /\ recorded_frames' = <<>>
    /\ is_recording' = TRUE
    /\ recording_start_time' = now
    /\ buttons' = "recording"
    /\ rec_threads' = Append(rec_threads, NewRecThread)
    /\ counter_var' = counter_var + 1
    /\ sessions' = sessions + 1
    /\ active_starts' = active_starts + 1
    /\ captured' = <<>>
    /\ UNCHANGED <<auto_mode, in_sound_segment, current_level, audio_queue,
                   after_queue, save_threads, files, now, delivered, presses,
                   last_stop_request, last_save, fixed, monitor_queue>>

\* A save_recording thread at line 802; expected: the blocks delivered
\* while the session it saves was recording; filename: the path that
\* session was given at lines 742-745.
NewSaveThread == [pc |-> "check", expected |-> captured,
                  filename |-> current_filename]

\* Mutation of stop_body: no thread is started on save_recording.
stop_body_without_thread ==
    /\ is_recording' = FALSE
    /\ buttons' = "idle"
    /\ save_threads' = save_threads
    /\ active_starts' = 0
    /\ UNCHANGED <<auto_mode, in_sound_segment, current_level, audio_queue,
                   recorded_frames, after_queue, rec_threads, files, now,
                   delivered, presses, captured, last_stop_request, last_save,
                   session_state, fixed, monitor_queue>>

\* Lines 792-798, after the test of line 789 has let the caller through.
stop_body ==
    /\ is_recording' = FALSE
    /\ buttons' = "idle"
    /\ save_threads' = Append(save_threads, NewSaveThread)
    /\ active_starts' = 0
    /\ UNCHANGED <<auto_mode, in_sound_segment, current_level, audio_queue,
                   recorded_frames, after_queue, rec_threads, files, now,
                   delivered, presses, captured, last_stop_request, last_save,
                   session_state, fixed, monitor_queue>>

\* Start requests that have passed line 734 and not finished.
StartsInFlight ==
    (IF gui.pc = "start" THEN 1 ELSE 0) + (IF hk = "start" THEN 1 ELSE 0)

\* The run's bound on sessions leaves room for one more start.
MayStart == sessions + StartsInFlight < MaxSessions

\* The run's bound on presses leaves room for one more.
MayPress == presses < MaxPresses

\* What a thread leaves alone when it only tests is_recording.
untested == <<is_recording, auto_mode, in_sound_segment, current_level,
              audio_queue, recorded_frames, buttons, files, now, delivered,
              active_starts, captured, last_stop_request, last_save,
              session_state, rec_threads, save_threads, fixed, monitor_queue>>

\* ------------------------------------------------------------- GUI thread
\* The Record button (line 208): start_recording up to the test of line 734.
GuiRecordButton ==
    /\ gui.pc = "idle"
    /\ buttons = "idle"
    /\ MayStart /\ MayPress
    /\ presses' = presses + 1
    /\ gui' = IF is_recording THEN GuiStartIgnored
              ELSE [pc |-> "start", origin |-> "button"]
    /\ UNCHANGED <<untested, after_queue, hk>>

\* The Stop button (line 211): stop_recording up to the test of line 789.
GuiStopButton ==
    /\ gui.pc = "idle"
    /\ buttons = "recording"
    /\ MayPress
    /\ presses' = presses + 1
    /\ gui' = IF ~is_recording THEN gui ELSE [pc |-> "stop", origin |-> "button"]
    /\ UNCHANGED <<untested, after_queue, hk>>

\* The main loop runs the oldest callback scheduled with after(0, ...), up
\* to the test of line 734 or 789.
GuiAfter ==
    /\ gui.pc = "idle"
    /\ after_queue # <<>>
    /\ Head(after_queue) = "start_recording" => MayStart
    /\ after_queue' = Tail(after_queue)
    /\ gui' = IF Head(after_queue) = "start_recording"
              THEN IF is_recording THEN GuiStartIgnored
                   ELSE [pc |-> "start", origin |-> "after"]
              ELSE IF ~is_recording THEN gui ELSE [pc |-> "stop", origin |-> "after"]
    /\ UNCHANGED <<untested, presses, hk>>

GuiStartBody ==
    /\ gui.pc = "start"
    /\ start_body
    /\ gui' = GuiIdle
    /\ UNCHANGED hk

GuiStopBody ==
    /\ gui.pc = "stop"
    /\ stop_body
    /\ gui' = GuiIdle
    /\ UNCHANGED hk

\* toggle_auto_mode (lines 499-506).
ToggleAutoMode ==
    /\ gui.pc = "idle"
    /\ auto_mode' = ~auto_mode
    /\ UNCHANGED <<is_recording, in_sound_segment, current_level, audio_queue,
                   recorded_frames, buttons, after_queue, files, now, delivered,
                   presses, active_starts, captured, last_stop_request, last_save,
                   session_state, positions, fixed, monitor_queue>>

\* on_closing (lines 1224-1285): is_recording is cleared, the streams are
\* closed and sys.exit ends the process, and with it the hotkey thread and
\* the daemon threads of recording_thread and save_recording.
Exited == [pc |-> "exited", origin |-> "none"]

OnClosing ==
    /\ gui.pc = "idle"
    /\ is_recording' = FALSE
    /\ gui' = Exited
    /\ hk' = "exited"
    /\ rec_threads' = <<>>
    /\ save_threads' = <<>>
    /\ streams' = {}
    /\ tasks' = <<>>
    /\ UNCHANGED <<auto_mode, in_sound_segment, current_level, audio_queue,
                   recorded_frames, buttons, after_queue, files, now, delivered,
                   presses, active_starts, captured, last_stop_request, last_save,
                   session_state, silence_duration, loud_run, trimsettings,
                   trimvars, monitor_queue, is_armed, is_monitoring, monitor_volume,
                   input_device_index, output_device_index, input_stream,
                   output_stream, events, outdata, faults, returned, settings>>

\* ---------------------------------------------------------- hotkey thread
\* F9 (line 1158): start_recording up to the test of line 734.
\* Mutation of HotkeyF9: start_recording without the test of line 734.
HotkeyF9_without_test ==
    /\ hk = "idle"
    /\ MayStart /\ MayPress
    /\ presses' = presses + 1
    /\ hk' = "start"
    /\ UNCHANGED <<untested, after_queue, gui>>

HotkeyF9 ==
    /\ hk = "idle"
    /\ MayStart /\ MayPress
    /\ presses' = presses + 1
    /\ hk' = IF is_recording THEN hk ELSE "start"
    /\ UNCHANGED <<untested, after_queue, gui>>

\* F10 (line 1159): stop_recording up to the test of line 789.
HotkeyF10 ==
    /\ hk = "idle"
    /\ MayPress
    /\ presses' = presses + 1
    /\ hk' = IF ~is_recording THEN hk ELSE "stop"
    /\ UNCHANGED <<untested, after_queue, gui>>

HotkeyStartBody ==
    /\ hk = "start"
    /\ start_body
    /\ hk' = "idle"
    /\ UNCHANGED gui

HotkeyStopBody ==
    /\ hk = "stop"
    /\ stop_body
    /\ hk' = "idle"
    /\ UNCHANGED gui

\* -------------------------------------------------------- recording_thread
\* Line 776.
SilenceLongEnough(silence_frames) ==
    silence_frames >= silence_frame_threshold(silence_duration)

\* Mutation of MinDurationReached: the minimum duration is not looked at.
MinDurationIgnored(elapsed) == TRUE

\* Lines 777-778: recording_duration >= self.min_recording_duration, for
\* elapsed = now - self.recording_start_time in 1/sample_rate seconds.
MinDurationReached(elapsed) ==
    elapsed * 1000 >= min_recording_duration * sample_rate

\* s without its i-th element: a thread that has returned.
Without(s, i) == SubSeq(s, 1, i - 1) \o SubSeq(s, i + 1, Len(s))

\* Line 766: while self.is_recording.
RecLoop(i) ==
    /\ rec_threads[i].pc = "loop"
    /\ rec_threads' = IF is_recording THEN [rec_threads EXCEPT ![i].pc = "get"]
                      ELSE Without(rec_threads, i)
    /\ UNCHANGED <<is_recording, auto_mode, in_sound_segment, current_level,
                   audio_queue, recorded_frames, buttons, after_queue, files, now,
                   delivered, presses, active_starts, captured, last_stop_request,
                   last_save, session_state, gui, hk, save_threads, fixed, monitor_queue>>

\* Mutation of RecGet: silence is counted and a stop requested without the
\* test of auto_mode at line 771.
RecGet_without_auto_test(i) ==
    LET t == rec_threads[i]
        silent == max_level(current_level) < silence_threshold_db
        count == IF silent THEN t.silence_frames + 1 ELSE 0
        long == silent /\ SilenceLongEnough(count)
        elapsed == now - recording_start_time
        stop == long /\ MinDurationReached(elapsed)
    IN  /\ t.pc = "get"
        /\ audio_queue # <<>>
        /\ audio_queue' = Tail(audio_queue)
        /\ recorded_frames' = Append(recorded_frames, Head(audio_queue))
        /\ after_queue' = IF stop THEN Append(after_queue, "stop_recording")
                          ELSE after_queue
        /\ rec_threads' = IF stop THEN Without(rec_threads, i)
                          ELSE [rec_threads EXCEPT ![i] =
                                 [pc |-> "loop", silence_frames |-> count,
                                  deferred |-> t.deferred \/ long]]
        /\ last_stop_request' =
               IF stop THEN [silence_frames |-> count, elapsed |-> elapsed,
                             deferred |-> t.deferred, requested |-> TRUE]
               ELSE last_stop_request
        /\ UNCHANGED <<is_recording, auto_mode, in_sound_segment, current_level,
                       buttons, files, now, delivered, presses, active_starts,
                       captured, last_save, session_state, gui, hk, save_threads,
                       fixed, monitor_queue>>

\* Lines 768-782: a block is taken from the queue, appended, and, in
\* auto-mode, counted as silence or not by the level of the moment.
RecGet(i) ==
    LET t == rec_threads[i]
        silent == max_level(current_level) < silence_threshold_db
        count == IF ~auto_mode THEN t.silence_frames
                 ELSE IF silent THEN t.silence_frames + 1 ELSE 0
        long == auto_mode /\ silent /\ SilenceLongEnough(count)
        elapsed == now - recording_start_time
        stop == long /\ MinDurationReached(elapsed)
    IN  /\ t.pc = "get"
        /\ audio_queue # <<>>
        /\ audio_queue' = Tail(audio_queue)
        /\ recorded_frames' = Append(recorded_frames, Head(audio_queue))
        /\ after_queue' = IF stop THEN Append(after_queue, "stop_recording")
                          ELSE after_queue
        /\ rec_threads' = IF stop THEN Without(rec_threads, i)
                          ELSE [rec_threads EXCEPT ![i] =
                                 [pc |-> "loop", silence_frames |-> count,
                                  deferred |-> t.deferred \/ long]]
        /\ last_stop_request' =
               IF stop THEN [silence_frames |-> count, elapsed |-> elapsed,
                             deferred |-> t.deferred, requested |-> TRUE]
               ELSE last_stop_request
        /\ UNCHANGED <<is_recording, auto_mode, in_sound_segment, current_level,
                       buttons, files, now, delivered, presses, active_starts,
                       captured, last_save, session_state, gui, hk, save_threads,
                       fixed, monitor_queue>>

\* Lines 784-785: the queue stayed empty for the 0.1 s of the get.
RecTimeout(i) ==
    /\ rec_threads[i].pc = "get"
    /\ audio_queue = <<>>
    /\ rec_threads' = [rec_threads EXCEPT ![i].pc = "loop"]
    /\ UNCHANGED <<is_recording, auto_mode, in_sound_segment, current_level,
                   audio_queue, recorded_frames, buttons, after_queue, files, now,
                   delivered, presses, active_starts, captured, last_stop_request,
                   last_save, session_state, gui, hk, save_threads, fixed, monitor_queue>>

\* ----------------------------------------------------------- save_recording
Ids(frames) == [k \in 1..Len(frames) |-> frames[k].id]

\* np.concatenate(self.recorded_frames): every block is blocksize samples,
\* which is one frame of trim_silence.
Concatenate(frames) == [frames |-> frames, tail |-> 0]

\* sf.write (line 820): done, failed before the file was created, or failed
\* after it was created.
WriteResults == {"ok", "not_created", "partial"}

\* The files on disk after sf.write of data to name with result r.
Written(name, data, r) ==
    IF r = "not_created" THEN files
    ELSE {f \in files : f.name # name}
         \cup {[name |-> name, frames |-> Ids(data.frames), complete |-> r = "ok"]}

\* Line 802: not self.recorded_frames.
NoFrames(frames) == frames = <<>>

\* Line 814: len(audio_data) == 0.
IsEmpty(data) == BufLen(data) = 0

\* Lines 802-804: with no frames, only the status is updated.
SaveCheck(i) ==
    /\ save_threads[i].pc = "check"
    /\ save_threads' = IF NoFrames(recorded_frames) THEN Without(save_threads, i)
                       ELSE [save_threads EXCEPT ![i].pc = "concat"]
    /\ last_save' = IF NoFrames(recorded_frames)
                    THEN [expected |-> save_threads[i].expected, buffer |-> <<>>,
                          empty |-> TRUE, outcome |-> "empty", wrote |-> FALSE]
                    ELSE last_save
    /\ UNCHANGED <<is_recording, auto_mode, in_sound_segment, current_level,
                   audio_queue, recorded_frames, buttons, after_queue, files, now,
                   delivered, presses, active_starts, captured, last_stop_request,
                   session_state, gui, hk, rec_threads, fixed, monitor_queue>>

\* Lines 806-842: concatenate (a ValueError on an empty list), trim, test
\* for an empty result, write.  empty: the buffer to persist was empty.
SaveWrite(i) ==
    /\ save_threads[i].pc = "concat"
    /\ \E r \in WriteResults :
        LET buf == Concatenate(recorded_frames)
            data == IF trim_silence_start \/ trim_silence_end
                    THEN trim_silence(buf, trim_silence_start, trim_silence_end,
                                      trim_threshold_db).data
                    ELSE buf
            raised == recorded_frames = <<>>
            empty == ~raised /\ IsEmpty(data)
            write == ~raised /\ ~empty
        IN  /\ last_save' =
                   [expected |-> save_threads[i].expected,
                    buffer |-> Ids(recorded_frames),
                    empty |-> raised \/ BufLen(data) = 0,
                    outcome |-> IF raised THEN "error"
                                ELSE IF empty THEN "empty"
                                ELSE IF r = "ok" THEN "saved" ELSE "error",
                    wrote |-> write /\ r # "not_created"]
            /\ files' = IF write THEN Written(current_filename, data, r) ELSE files
    /\ save_threads' = Without(save_threads, i)
    /\ UNCHANGED <<is_recording, auto_mode, in_sound_segment, current_level,
                   audio_queue, recorded_frames, buttons, after_queue, now,
                   delivered, presses, active_starts, captured, last_stop_request,
                   session_state, gui, hk, rec_threads, fixed, monitor_queue>>

\* ---------------------------------------------------------- specifications
\* silence_duration (in ms) that load_settings hands to a run with free
\* input: a collector threshold of one block.
FreeSilenceDurations == {50}

Init ==
    /\ InitRecorder
    /\ MonitorRunning
    /\ NoTrimRun
    /\ auto_mode \in BOOLEAN
    /\ silence_duration \in FreeSilenceDurations
    /\ loud_run = 0
    /\ trim_silence_start = TRUE
    /\ trim_silence_end = TRUE
    /\ trim_threshold_db = default_trim_threshold_db

Threads ==
    \/ \E i \in DOMAIN rec_threads : RecLoop(i)
    \/ \E i \in DOMAIN rec_threads : RecGet(i)
    \/ \E i \in DOMAIN rec_threads : RecTimeout(i)
    \/ \E i \in DOMAIN save_threads : SaveCheck(i)
    \/ \E i \in DOMAIN save_threads : SaveWrite(i)

Next ==
    \/ InputCallback
    \/ GuiRecordButton
    \/ GuiStopButton
    \/ GuiAfter
    \/ GuiStartBody
    \/ GuiStopBody
    \/ ToggleAutoMode
    \/ OnClosing
    \/ HotkeyF9
    \/ HotkeyF10
    \/ HotkeyStartBody
    \/ HotkeyStopBody
    \/ Threads

Spec == Init /\ [][Next]_vars

\* ------------------------------------------------------------- Scenario C
\* Auto-record with the threshold at -40 dB and a minimum duration of 1 s:
\* loud_run blocks at -10 dB, then blocks at -60 dB.  silence_duration is
\* the default of 2 s or the 0.5 s the duration slider starts at (line 234).
ScenarioSilenceDurations == {default_silence_duration, 500}
ScenarioLoudRuns == {1, 50}

ScenarioAmp(k) == IF k <= loud_run THEN <<316228, 316228>> ELSE <<1000, 1000>>

InitC ==
    /\ InitRecorder
    /\ MonitorRunning
    /\ NoTrimRun
    /\ auto_mode = TRUE
    /\ silence_duration \in ScenarioSilenceDurations
    /\ loud_run \in ScenarioLoudRuns
    /\ trim_silence_start = TRUE
    /\ trim_silence_end = TRUE
    /\ trim_threshold_db = default_trim_threshold_db

\* The stream delivers the next block of the scenario; by then the main
\* loop has run what was scheduled, and the collector is at most
\* ScenarioLag blocks behind.
ScenarioCallback ==
    /\ InputActive
    /\ delivered < ScenarioBlocks
    /\ after_queue = <<>>
    /\ gui.pc = "idle"
    /\ Len(audio_queue) < ScenarioLag
    /\ input_callback(ScenarioAmp(delivered + 1))

NextC ==
    \/ ScenarioCallback
    \/ GuiAfter
    \/ GuiStartBody
    \/ GuiStopBody
    \/ Threads

SpecC == InitC /\ [][NextC]_vars

\* ------------------------------------------------------------------ claims
\* C1: at most one session is Active: the body of start_recording runs at
\* most once between two consecutive stops.
C1_OneStartBetweenStops == active_starts <= 1

\* C2: the buffer a session's save_recording concatenates holds exactly the
\* blocks delivered to input_callback while that session was recording, in
\* capture order.
C2_SavedBufferIsWhatWasCaptured ==
    last_save.outcome # "none" => last_save.buffer = last_save.expected

\* C4: a stop is requested only once the run of sub-threshold blocks
\* counted has lasted silence_duration:
\* silence_frames * blocksize / sample_rate >= silence_duration.
C4_StopOnlyAfterSilenceDuration ==
    last_stop_request.requested =>
        last_stop_request.silence_frames * blocksize * 1000
            >= silence_duration * sample_rate

\* A collector takes a block from the queue.
CollectorTakesBlock == audio_queue # <<>> /\ audio_queue' = Tail(audio_queue)

\* C5: the collector requests a stop at a block exactly when that block is
\* sub-threshold in auto-mode, the count of consecutive silent blocks has
\* reached its threshold and the elapsed recording time is at least
\* min_recording_duration: not while the elapsed time is below it, and at
\* the first silent block at which it is reached.
C5_StopDeferredUntilMinDuration ==
    [][CollectorTakesBlock =>
        \E i \in DOMAIN rec_threads :
            /\ rec_threads[i].pc = "get"
            /\ (after_queue' = Append(after_queue, "stop_recording"))
               <=> (/\ auto_mode
                    /\ Max(current_level[1], current_level[2]) < silence_threshold_db
                    /\ rec_threads[i].silence_frames + 1
                           >= silence_frame_threshold(silence_duration)
                    /\ (now - recording_start_time) * 1000
                           >= min_recording_duration * sample_rate)]_vars

C5_Witness ==
    /\ last_stop_request.requested
    /\ last_stop_request.deferred
    /\ last_stop_request.silence_frames > silence_frame_threshold(silence_duration)

\* C6: in auto-mode with no session Active and in_sound_segment false, a
\* block whose louder channel is above the silence threshold sets
\* in_sound_segment and schedules start_recording; when the main loop has
\* run the scheduled start, a session is Active.
C6_AutoStart ==
    /\ [][(/\ delivered' = delivered + 1
           /\ auto_mode /\ ~is_recording /\ ~in_sound_segment
           /\ Max(current_level'[1], current_level'[2]) > silence_threshold_db)
          => (/\ in_sound_segment'
              /\ after_queue' = Append(after_queue, "start_recording"))]_vars
    /\ [][(gui.pc = "start" /\ gui.origin = "after" /\ gui'.pc = "idle")
          => is_recording']_vars

C6_Witness ==
    /\ is_recording
    /\ in_sound_segment
    /\ sessions = 1
    /\ presses = 0

\* A stop_recording called from the Stop button or F10 runs its body.
ManualStop ==
    \/ hk = "stop" /\ hk' = "idle"
    \/ gui.pc = "stop" /\ gui.origin = "button" /\ gui'.pc = "idle"

\* C7: a manual stop resets the auto-record controller: after it,
\* in_sound_segment is back at its initial value.
C7_ManualStopResetsController ==
    [][ManualStop => ~in_sound_segment']_vars

\* C17: a failed write of the output file leaves no partial file on disk:
\* every file on disk is one that was written completely.
C17_NoPartialFileOnDisk == \A f \in files : f.complete

\* C18: no step takes a session out of Active without starting the save
\* step on its accumulated blocks: whenever is_recording goes from true to
\* false, a save_recording thread has been started.
C18_LeavingActiveStartsSave ==
    [][(is_recording /\ ~is_recording')
       => Len(save_threads') = Len(save_threads) + 1]_vars

\* A caller of stop_recording returns from it.
StopReturns ==
    \/ gui.pc = "stop" /\ gui'.pc = "idle"
    \/ hk = "stop" /\ hk' = "idle"

\* A save_recording thread takes a step.
SaveStep ==
    /\ save_threads' # save_threads
    /\ Len(save_threads') <= Len(save_threads)
    /\ gui' # Exited

C26_StartWhileActiveIsNoOp ==
    [][(is_recording /\ gui.pc # "start" /\ hk # "start") =>
          /\ gui'.pc # "start"
          /\ hk' # "start"
          /\ current_filename' = current_filename
          /\ recording_start_time' = recording_start_time
          /\ counter_var' = counter_var
          /\ Len(rec_threads') <= Len(rec_threads)
          /\ recorded_frames # <<>> => recorded_frames' # <<>>]_vars

\* A start_recording run from the Tk thread has returned at line 735, and
\* the session it found is still the only one, with the block it had.
C26_Witness ==
    /\ gui = GuiStartIgnored
    /\ is_recording
    /\ sessions = 1
    /\ Len(rec_threads) = 1
    /\ recorded_frames # <<>>

\* C28: the collector counts silence by the level of the block it takes:
\* in auto-mode, for every block recording_thread takes from the queue, its
\* count becomes one more when that block's louder channel is below the
\* threshold and zero when it is not, however far the collector is behind
\* input_callback.
C28_SilenceCountedByOwnLevel ==
    [][(CollectorTakesBlock /\ auto_mode) =>
        \E i \in DOMAIN rec_threads :
            LET b == Head(audio_queue)
                own == max_level(update_levels(<<b.l, b.r>>))
                count == IF own < silence_threshold_db
                         THEN rec_threads[i].silence_frames + 1 ELSE 0
            IN  /\ rec_threads[i].pc = "get"
                /\ \/ /\ Len(rec_threads') = Len(rec_threads)
                      /\ rec_threads'[i].silence_frames = count
                   \/ /\ Len(rec_threads') < Len(rec_threads)
                      /\ last_stop_request'.silence_frames = count]_vars

\* The save_recording thread i writes a file and ends.
SaveWrites(i) ==
    /\ i \in DOMAIN save_threads
    /\ save_threads[i].pc = "concat"
    /\ save_threads' = Without(save_threads, i)
    /\ files' # files

\* C33: each session's audio is persisted under the path allocated when the
\* session started and holds only that session's blocks: the file a
\* save_recording thread writes has the name its session was given by
\* start_recording, and every block in it was delivered while that session
\* was recording, also when a new session has started in the meantime.
C33_SavedUnderOwnPath ==
    [][\A i \in DOMAIN save_threads : SaveWrites(i) =>
          \A f \in files' \ files :
              /\ f.name = save_threads[i].filename
              /\ \A k \in DOMAIN f.frames :
                     \E j \in DOMAIN save_threads[i].expected :
                         save_threads[i].expected[j] = f.frames[k]]_vars

\* C34: at most one recording_thread is alive at any time: unless two
\* start bodies have run since the last stop (the race of C1), the collector
\* of an earlier session has ended by the time the next session has its
\* own, however soon the start follows the stop.
C34_OneCollectorAlive == active_starts <= 1 => Len(rec_threads) <= 1

\* C35: each Active period produces exactly one save task: a thread is
\* started on save_recording only by a step that takes is_recording from
\* true to false, so once per session also under concurrent stop requests;
\* and a stop_recording called while is_recording is false does not get
\* past the test of line 789.
C35_OneSavePerSession ==
    [][/\ Len(save_threads') > Len(save_threads) =>
              (is_recording /\ ~is_recording')
       /\ (~is_recording /\ gui.pc # "stop" /\ hk # "stop") =>
              (gui'.pc # "stop" /\ hk' # "stop")]_vars

\* C38: a block delivered before start_recording has set is_recording, the
\* block that triggered the auto-start among them, is never part of the
\* started session's buffer: unless two start bodies have run since the last
\* stop (the race of C1), every block in recorded_frames was delivered after
\* the start of the session (block k is delivered at time (k - 1) *
\* blocksize), and input_callback queues a block only when is_recording is
\* true.
C38_NoBlockFromBeforeStart ==
    [][/\ (delivered' = delivered + 1 /\ audio_queue' # audio_queue)
             => is_recording
       /\ active_starts' = 1 =>
             \A k \in DOMAIN recorded_frames' :
                 (recorded_frames'[k].id - 1) * blocksize
                     >= recording_start_time']_vars

\* C10: when the buffer to persist is empty, save_recording writes no file
\* and ends in the 'empty' outcome, not in an error.
C10_EmptyBufferNoFileNoError ==
    last_save.empty => (last_save.outcome = "empty" /\ ~last_save.wrote)

\* ------------------------------------------ monitoring: streams and arming
\* Everything the monitoring methods leave alone.
recorder == <<is_recording, auto_mode, in_sound_segment, audio_queue,
              recorded_frames, buttons, after_queue, files, presses,
              active_starts, captured, last_stop_request, last_save,
              session_state, positions, silence_duration, loud_run,
              trimsettings, trimvars, settings>>

\* A call in progress: the method called first, where it is, and whether
\* it runs on the Tk thread ("gui") or on a thread of its own ("worker").
Task(proc, pc, thread) == [proc |-> proc, pc |-> pc, thread |-> thread]

\* The Tk thread is in the main loop, not inside a call.
GuiFree == gui.pc = "idle" /\ \A i \in DOMAIN tasks : tasks[i].thread # "gui"

At(i, pc) == i \in DOMAIN tasks /\ tasks[i].pc = pc
Goto(i, pc) == [tasks EXCEPT ![i].pc = pc]

\* stream.stop()/abort() and close() of stream k; on 0 (None) nothing.
Closed(k) == {st \in streams : st.id # k}

\* Outcomes of stream.stop() or abort() followed by close() on handle k:
\* on None (0) nothing is called.
StopResults(k) == IF k = 0 THEN {"ok"} ELSE {"ok", "PortAudioError"}

\* The streams after stop() or abort() and close() of stream k with outcome
\* res.  When the first call raises, close() is skipped (lines 632-635,
\* 659-669, 689-692, 717-727) and the stream stays as it was.
StopAndClose(k, res) == IF res = "ok" THEN Closed(k) ELSE streams

\* The handle of the next stream made.
NewStream == CHOOSE k \in 1..(Cardinality(streams) + 1) :
                 \A st \in streams : st.id # k

\* The stream k is started.
Started(k) ==
    {IF st.id = k THEN [st EXCEPT !.state = "started"] ELSE st : st \in streams}

\* Stream k is open.
IsOpen(k) == \E st \in streams : st.id = k

\* What a start method leaves behind when it returns.
Return(proc, failed, monitoring, handle, armed) ==
    [proc |-> proc, failed |-> failed, is_monitoring |-> monitoring,
     input_stream |-> handle, is_armed |-> armed, delivered |-> delivered]

\* Outcomes of sd.InputStream(...), sd.OutputStream(...) and stream.start().
DeviceResults == {"ok", "PortAudioError"}

\* on_input_device_change (lines 457-464): the selection, another device
\* than the current one, is stored and a thread is started on
\* restart_input_monitoring.
OnInputDeviceChange ==
    /\ GuiFree
    /\ events.device < MaxDeviceChanges
    /\ events' = [events EXCEPT !.device = @ + 1]
    /\ \E d \in InputDevices \ {input_device_index} : input_device_index' = d
    /\ tasks' = Append(tasks, Task("restart_input_monitoring", "rin_check", "worker"))
    /\ UNCHANGED <<recorder, current_level, now, delivered, monitor_queue, is_armed,
                   is_monitoring, monitor_volume, output_device_index, input_stream,
                   output_stream, streams, outdata, faults, returned>>

\* on_output_device_change (lines 474-482): the thread is started only
\* when armed.
OnOutputDeviceChange ==
    /\ GuiFree
    /\ events.device < MaxDeviceChanges
    /\ events' = [events EXCEPT !.device = @ + 1]
    /\ \E d \in OutputDevices \ {output_device_index} : output_device_index' = d
    /\ tasks' = IF is_armed
                THEN Append(tasks, Task("restart_output_monitoring", "rout_stop", "worker"))
                ELSE tasks
    /\ UNCHANGED <<recorder, current_level, now, delivered, monitor_queue, is_armed,
                   is_monitoring, monitor_volume, input_device_index, input_stream,
                   output_stream, streams, outdata, faults, returned>>

\* toggle_arm (lines 353-365), on the Tk thread: is_armed follows the
\* checkbox, then start_output_monitoring or stop_output_monitoring.
ToggleArm ==
    /\ GuiFree
    /\ events.arm < MaxArmToggles
    /\ events' = [events EXCEPT !.arm = @ + 1]
    /\ is_armed' = ~is_armed
    /\ tasks' = Append(tasks, IF ~is_armed
                              THEN Task("start_output_monitoring", "out_check", "gui")
                              ELSE Task("stop_output_monitoring", "out_stop", "gui"))
    /\ UNCHANGED <<recorder, current_level, now, delivered, monitor_queue,
                   is_monitoring, monitor_volume, input_device_index,
                   output_device_index, input_stream, output_stream, streams,
                   outdata, faults, returned>>

\* restart_input_monitoring, line 468: nothing to do unless monitoring.
RestartInCheck(i) ==
    /\ At(i, "rin_check")
    /\ tasks' = IF is_monitoring THEN Goto(i, "rin_stop") ELSE Without(tasks, i)
    /\ UNCHANGED <<recorder, current_level, now, delivered, monitor_queue, is_armed,
                   is_monitoring, monitor_volume, input_device_index,
                   output_device_index, input_stream, output_stream, streams,
                   events, outdata, faults, returned>>

\* stop_input_monitoring(force=True), lines 656-673, then the sleep.
RestartInStop(i) ==
    /\ At(i, "rin_stop")
    /\ \E res \in StopResults(input_stream) :
           streams' = StopAndClose(input_stream, res)
    /\ input_stream' = 0
    /\ is_monitoring' = IF input_stream # 0 THEN FALSE ELSE is_monitoring
    /\ tasks' = Goto(i, "in_check")
    /\ UNCHANGED <<recorder, current_level, now, delivered, monitor_queue, is_armed,
                   monitor_volume, input_device_index, output_device_index,
                   output_stream, events, outdata, faults, returned>>

\* start_input_monitoring, lines 624-626.
StartInCheck(i) ==
    /\ At(i, "in_check")
    /\ tasks' = IF input_device_index = NoDevice THEN Without(tasks, i)
                ELSE Goto(i, "in_close")
    /\ UNCHANGED <<recorder, current_level, now, delivered, monitor_queue, is_armed,
                   is_monitoring, monitor_volume, input_device_index,
                   output_device_index, input_stream, output_stream, streams,
                   events, outdata, faults, returned>>

\* Lines 630-636: the stream the handle names, if any, is closed.
StartInClose(i) ==
    /\ At(i, "in_close")
    /\ \E res \in StopResults(input_stream) :
           streams' = StopAndClose(input_stream, res)
    /\ input_stream' = 0
    /\ tasks' = Goto(i, "in_open")
    /\ UNCHANGED <<recorder, current_level, now, delivered, monitor_queue, is_armed,
                   is_monitoring, monitor_volume, input_device_index,
                   output_device_index, output_stream, events, outdata, faults,
                   returned>>

\* Lines 640-646 (and 649-652 when sd.InputStream raises).
StartInOpen(i) ==
    /\ At(i, "in_open")
    /\ \E res \in DeviceResults :
        IF res = "ok"
        THEN /\ streams' = streams \cup {Stream(NewStream, "in", "opened", input_device_index)}
             /\ input_stream' = NewStream
             /\ tasks' = Goto(i, "in_start")
             /\ UNCHANGED returned
        ELSE /\ tasks' = Without(tasks, i)
             /\ returned' = Return("start_input_monitoring", TRUE, is_monitoring,
                                   input_stream, is_armed)
             /\ UNCHANGED <<streams, input_stream>>
    /\ UNCHANGED <<recorder, current_level, now, delivered, monitor_queue, is_armed,
                   is_monitoring, monitor_volume, input_device_index,
                   output_device_index, output_stream, events, outdata, faults>>

\* Lines 647-648 (and 649-652 when start raises: also when the handle has
\* become None, or names a stream another thread has closed).
StartInStart(i) ==
    /\ At(i, "in_start")
    /\ \E res \in DeviceResults :
        IF res = "ok" /\ IsOpen(input_stream)
        THEN /\ streams' = Started(input_stream)
             /\ is_monitoring' = TRUE
             /\ returned' = Return("start_input_monitoring", FALSE, TRUE,
                                   input_stream, is_armed)
        ELSE /\ returned' = Return("start_input_monitoring", TRUE, is_monitoring,
                                   input_stream, is_armed)
             /\ UNCHANGED <<streams, is_monitoring>>
    /\ tasks' = Without(tasks, i)
    /\ UNCHANGED <<recorder, current_level, now, delivered, monitor_queue, is_armed,
                   monitor_volume, input_device_index, output_device_index,
                   input_stream, output_stream, events, outdata, faults>>

\* Mutation of ArmedAfterFailure: a failed start leaves is_armed as it was.
StaysArmedAfterFailure(armed) == armed

\* Lines 680 and 710: self.is_armed = False.
ArmedAfterFailure(armed) == FALSE

\* restart_output_monitoring, line 486, and stop_output_monitoring called
\* from toggle_arm (line 361): lines 714-730.
StopOut(i) ==
    /\ At(i, "rout_stop") \/ At(i, "out_stop")
    /\ \E res \in StopResults(output_stream) :
           streams' = StopAndClose(output_stream, res)
    /\ output_stream' = 0
    /\ tasks' = IF tasks[i].pc = "rout_stop" THEN Goto(i, "out_check")
                ELSE Without(tasks, i)
    /\ UNCHANGED <<recorder, current_level, now, delivered, monitor_queue, is_armed,
                   is_monitoring, monitor_volume, input_device_index,
                   output_device_index, input_stream, events, outdata, faults,
                   returned>>

\* start_output_monitoring, lines 677-683: with no device, disarmed.
StartOutCheck(i) ==
    /\ At(i, "out_check")
    /\ IF output_device_index = NoDevice
       THEN /\ is_armed' = ArmedAfterFailure(is_armed)
            /\ tasks' = Without(tasks, i)
            /\ returned' = Return("start_output_monitoring", TRUE, is_monitoring,
                                  input_stream, is_armed')
       ELSE /\ tasks' = Goto(i, "out_close")
            /\ UNCHANGED <<is_armed, returned>>
    /\ UNCHANGED <<recorder, current_level, now, delivered, monitor_queue,
                   is_monitoring, monitor_volume, input_device_index,
                   output_device_index, input_stream, output_stream, streams,
                   events, outdata, faults>>

\* Lines 687-693.
StartOutClose(i) ==
    /\ At(i, "out_close")
    /\ \E res \in StopResults(output_stream) :
           streams' = StopAndClose(output_stream, res)
    /\ output_stream' = 0
    /\ tasks' = Goto(i, "out_open")
    /\ UNCHANGED <<recorder, current_level, now, delivered, monitor_queue, is_armed,
                   is_monitoring, monitor_volume, input_device_index,
                   output_device_index, input_stream, events, outdata, faults,
                   returned>>

\* Lines 697-703 (and 706-711 when sd.OutputStream raises).
StartOutOpen(i) ==
    /\ At(i, "out_open")
    /\ \E res \in DeviceResults :
        IF res = "ok"
        THEN /\ streams' = streams \cup {Stream(NewStream, "out", "opened", output_device_index)}
             /\ output_stream' = NewStream
             /\ tasks' = Goto(i, "out_start")
             /\ UNCHANGED <<is_armed, returned>>
        ELSE /\ is_armed' = ArmedAfterFailure(is_armed)
             /\ tasks' = Without(tasks, i)
             /\ returned' = Return("start_output_monitoring", TRUE, is_monitoring,
                                   input_stream, is_armed')
             /\ UNCHANGED <<streams, output_stream>>
    /\ UNCHANGED <<recorder, current_level, now, delivered, monitor_queue,
                   is_monitoring, monitor_volume, input_device_index,
                   output_device_index, input_stream, events, outdata, faults>>

\* Line 704 (and 706-711 when start raises).
StartOutStart(i) ==
    /\ At(i, "out_start")
    /\ \E res \in DeviceResults :
        IF res = "ok" /\ IsOpen(output_stream)
        THEN /\ streams' = Started(output_stream)
             /\ returned' = Return("start_output_monitoring", FALSE, is_monitoring,
                                   input_stream, is_armed)
             /\ UNCHANGED is_armed
        ELSE /\ is_armed' = ArmedAfterFailure(is_armed)
             /\ returned' = Return("start_output_monitoring", TRUE, is_monitoring,
                                   input_stream, is_armed')
             /\ UNCHANGED streams
    /\ tasks' = Without(tasks, i)
    /\ UNCHANGED <<recorder, current_level, now, delivered, monitor_queue,
                   is_monitoring, monitor_volume, input_device_index,
                   output_device_index, input_stream, output_stream, events,
                   outdata, faults>>

\* ------------------------------------------------------------ the callbacks
\* Exceptions raised inside a callback: by root.after when the main loop is
\* not running (RuntimeError), by outdata[:] = data on a block of the wrong
\* size (ValueError).
CallbackExceptions == {"RuntimeError", "ValueError"}

\* Mutation of CaughtAtBoundary: only queue.Empty is handled.
CaughtOnlyQueueEmpty(exc) == exc = "Empty"

\* Lines 587 and 616: except Exception.
CaughtAtBoundary(exc) == exc \in CallbackExceptions \cup {"Empty"}

\* A callback that lets an exception out is not called again: its stream
\* is finished.
Aborted(kind) == {st \in streams : ~(st.kind = kind /\ st.state = "started")}

\* Blocks of a run of the monitoring model: -20 dB on both channels.
MonAmps == {<<100000, 100000>>}

\* input_callback on a started input stream, running to its end.
MonInputCallback ==
    /\ InputActive
    /\ delivered < MaxBlocks
    /\ \E amp \in MonAmps : input_callback(amp)

\* input_callback when update_levels raises at line 531 (root.after), after
\* it has set the levels: lines 565-573 are skipped, line 587 catches.
InputCallbackRaises ==
    /\ InputActive
    /\ delivered < MaxBlocks
    /\ \E amp \in MonAmps, exc \in {"RuntimeError"} :
        /\ current_level' = update_levels(amp)
        /\ delivered' = delivered + 1
        /\ now' = now + blocksize
        /\ IF CaughtAtBoundary(exc)
           THEN /\ faults' = [faults EXCEPT !.caught = @ + 1,
                                            !.at = delivered + 1]
                /\ UNCHANGED streams
           ELSE /\ faults' = [faults EXCEPT !.escaped = TRUE]
                /\ streams' = Aborted("in")
        /\ UNCHANGED <<recorder, monitor_queue, is_armed, is_monitoring,
                       monitor_volume, input_device_index,
                       output_device_index, input_stream, output_stream,
                       tasks, events, outdata, returned>>

\* Frame counts the output stream asks for.
OutFrames == {blocksize \div 2, blocksize, 2 * blocksize}

\* Mutation of Resize: a short block is not padded.
ResizeWithoutPadding(n, frames) ==
    [kept |-> Min(n, frames), pad |-> 0]

\* Lines 604-610: of a block of n frames, kept frames are kept and pad
\* frames of zeros are appended.
Resize(n, frames) ==
    IF n < frames THEN [kept |-> n, pad |-> frames - n]
    ELSE IF n > frames THEN [kept |-> frames, pad |-> 0]
    ELSE [kept |-> n, pad |-> 0]

\* Line 602: data * self.monitor_volume.
Scaled(block, volume) ==
    [id |-> block.id, l |-> (block.l * volume) \div 100,
     r |-> (block.r * volume) \div 100]

\* output_callback (lines 592-620) asked for frames frames.  outdata[:] =
\* data raises ValueError unless data has frames frames.
output_callback(frames) ==
    LET empty == monitor_queue = <<>>
        head == IF empty THEN NoBlock ELSE Head(monitor_queue)
        size == Resize(blocksize, frames)
        raised == ~empty /\ size.kept + size.pad # frames
        zeros == [frames |-> frames, empty |-> empty, head |-> head,
                  written |-> TRUE, kept |-> 0, pad |-> frames, block |-> NoBlock]
    IN  /\ monitor_queue' = IF empty THEN monitor_queue ELSE Tail(monitor_queue)
        /\ outdata' = IF empty THEN zeros
                      ELSE IF ~raised
                      THEN [frames |-> frames, empty |-> FALSE, head |-> head,
                            written |-> TRUE, kept |-> size.kept, pad |-> size.pad,
                            block |-> Scaled(head, monitor_volume)]
                      ELSE IF CaughtAtBoundary("ValueError") THEN zeros
                      ELSE [zeros EXCEPT !.written = FALSE]
        /\ faults' = IF ~raised THEN faults
                     ELSE IF CaughtAtBoundary("ValueError")
                     THEN [faults EXCEPT !.caught = @ + 1, !.at = delivered]
                     ELSE [faults EXCEPT !.escaped = TRUE]
        /\ streams' = IF raised /\ ~CaughtAtBoundary("ValueError")
                      THEN Aborted("out") ELSE streams
        /\ events' = [events EXCEPT !.played = @ + 1]
        /\ UNCHANGED <<recorder, current_level, now, delivered, is_armed,
                       is_monitoring, monitor_volume, input_device_index,
                       output_device_index, input_stream, output_stream, tasks,
                       returned>>

OutputCallback ==
    /\ OutputActive
    /\ events.played < MaxBlocks
    /\ \E frames \in OutFrames : output_callback(frames)

\* monitor_volume that load_settings hands to a run (line 1211).
MonVolumes == {default_monitor_volume, 100}

\* The state after __init__: start_input_monitoring is about to run on the
\* Tk thread (line 88).
InitMon ==
    /\ InitRecorder
    /\ MonitorConstructed
    /\ NoTrimRun
    /\ auto_mode = FALSE
    /\ silence_duration = default_silence_duration
    /\ loud_run = 0
    /\ trim_silence_start = TRUE
    /\ trim_silence_end = TRUE
    /\ trim_threshold_db = default_trim_threshold_db
    /\ monitor_volume \in MonVolumes
    /\ input_device_index = 0
    /\ output_device_index \in {NoDevice, 1}
    /\ tasks = <<Task("start_input_monitoring", "in_check", "gui")>>

MonTasks ==
    \/ \E i \in DOMAIN tasks : RestartInCheck(i)
    \/ \E i \in DOMAIN tasks : RestartInStop(i)
    \/ \E i \in DOMAIN tasks : StartInCheck(i)
    \/ \E i \in DOMAIN tasks : StartInClose(i)
    \/ \E i \in DOMAIN tasks : StartInOpen(i)
    \/ \E i \in DOMAIN tasks : StartInStart(i)
    \/ \E i \in DOMAIN tasks : StopOut(i)
    \/ \E i \in DOMAIN tasks : StartOutCheck(i)
    \/ \E i \in DOMAIN tasks : StartOutClose(i)
    \/ \E i \in DOMAIN tasks : StartOutOpen(i)
    \/ \E i \in DOMAIN tasks : StartOutStart(i)

\* Streams and arming: device selections, the Arm checkbox, the start,
\* stop and restart methods, and input_callback.
NextMon ==
    \/ OnInputDeviceChange
    \/ OnOutputDeviceChange
    \/ ToggleArm
    \/ MonInputCallback
    \/ MonTasks

SpecMon == InitMon /\ [][NextMon]_vars

\* The state once start_input_monitoring has started its stream, before
\* the first click on Arm.
InitArm ==
    /\ InitRecorder
    /\ NoTrimRun
    /\ auto_mode = FALSE
    /\ silence_duration = default_silence_duration
    /\ loud_run = 0
    /\ trim_silence_start = TRUE
    /\ trim_silence_end = TRUE
    /\ trim_threshold_db = default_trim_threshold_db
    /\ is_armed = FALSE
    /\ is_monitoring = TRUE
    /\ monitor_queue = <<>>
    /\ monitor_volume = default_monitor_volume
    /\ input_device_index = 0
    /\ output_device_index \in {NoDevice, 1}
    /\ input_stream = 1
    /\ output_stream = 0
    /\ streams = {Stream(1, "in", "started", 0)}
    /\ tasks = <<>>
    /\ events = NoEvents
    /\ outdata = NoOutdata
    /\ faults = NoFaults
    /\ returned = NoReturn
    /\ settings = NoSettings

OutTasks ==
    \/ \E i \in DOMAIN tasks : StopOut(i)
    \/ \E i \in DOMAIN tasks : StartOutCheck(i)
    \/ \E i \in DOMAIN tasks : StartOutClose(i)
    \/ \E i \in DOMAIN tasks : StartOutOpen(i)
    \/ \E i \in DOMAIN tasks : StartOutStart(i)

\* Arming on its own: the Arm checkbox, output device selections, the
\* output start, stop and restart methods, and input_callback.
NextArm ==
    \/ ToggleArm
    \/ OnOutputDeviceChange
    \/ MonInputCallback
    \/ OutTasks

SpecArm == InitArm /\ [][NextArm]_vars

\* The state once start_input_monitoring and, after a click on Arm,
\* start_output_monitoring have started their streams.
InitPlay ==
    /\ InitRecorder
    /\ NoTrimRun
    /\ auto_mode = FALSE
    /\ silence_duration = default_silence_duration
    /\ loud_run = 0
    /\ trim_silence_start = TRUE
    /\ trim_silence_end = TRUE
    /\ trim_threshold_db = default_trim_threshold_db
    /\ is_armed = TRUE
    /\ is_monitoring = TRUE
    /\ monitor_queue = <<>>
    /\ monitor_volume \in MonVolumes
    /\ input_device_index = 0
    /\ output_device_index = 1
    /\ input_stream = 1
    /\ output_stream = 2
    /\ streams = {Stream(1, "in", "started", 0), Stream(2, "out", "started", 1)}
    /\ tasks = <<>>
    /\ events = NoEvents
    /\ outdata = NoOutdata
    /\ faults = NoFaults
    /\ returned = NoReturn
    /\ settings = NoSettings

\* The two callbacks while armed.
NextPlay ==
    \/ MonInputCallback
    \/ InputCallbackRaises
    \/ OutputCallback

SpecPlay == InitPlay /\ [][NextPlay]_vars

\* ------------------------------------------------ the scenario by hand
\* Auto-mode is off and the user records with the Record and Stop buttons:
\* loud_run blocks at -10 dB, then blocks at -60 dB, with a
\* silence_duration of one block.  Nothing is ever scheduled with
\* root.after, so the main loop has no scheduled callback to run; the
\* save_recording threads are not followed.
ManualLoudRuns == {1, 2}

InitManual ==
    /\ InitRecorder
    /\ MonitorRunning
    /\ NoTrimRun
    /\ auto_mode = FALSE
    /\ silence_duration \in FreeSilenceDurations
    /\ loud_run \in ManualLoudRuns
    /\ trim_silence_start = TRUE
    /\ trim_silence_end = TRUE
    /\ trim_threshold_db = default_trim_threshold_db

\* The stream delivers the next block, the collector at most ScenarioLag
\* blocks behind.
ManualCallback ==
    /\ InputActive
    /\ delivered < ManualBlocks
    /\ gui.pc = "idle"
    /\ Len(audio_queue) < ScenarioLag
    /\ input_callback(ScenarioAmp(delivered + 1))

NextManual ==
    \/ ManualCallback
    \/ GuiRecordButton
    \/ GuiStopButton
    \/ GuiStartBody
    \/ GuiStopBody
    \/ \E i \in DOMAIN rec_threads : RecLoop(i)
    \/ \E i \in DOMAIN rec_threads : RecGet(i)
    \/ \E i \in DOMAIN rec_threads : RecTimeout(i)

SpecManual == InitManual /\ [][NextManual]_vars

\* A start_recording or stop_recording called from a button or a hotkey
\* runs its body, or on_closing ends the process.
ManualOrShutdown ==
    \/ gui.pc \in {"start", "stop"} /\ gui.origin = "button" /\ gui'.pc = "idle"
    \/ hk \in {"start", "stop"} /\ hk' = "idle"
    \/ gui' = Exited

\* C36: with auto-mode disabled the audio path starts and stops nothing: a
\* step taken while auto_mode is false schedules neither start_recording
\* nor stop_recording, and while nothing scheduled is left is_recording
\* changes only by a manual start or stop or by shutdown.
C36_NoAutoWhenDisabled ==
    [][~auto_mode =>
          /\ Len(after_queue') <= Len(after_queue)
          /\ (after_queue = <<>> /\ gui.origin # "after"
                 /\ is_recording' # is_recording) => ManualOrShutdown]_vars

\* Auto-mode is off; in a session started by hand the
\* collector has taken a block of a silence longer than silence_duration,
\* after min_recording_duration, and nothing is scheduled; and a block
\* above the threshold came in before the session, starting nothing.
C36_Witness ==
    /\ ~auto_mode
    /\ ~in_sound_segment
    /\ is_recording
    /\ presses = 1
    /\ sessions = 1
    /\ after_queue = <<>>
    /\ captured # <<>>
    /\ captured[1] > 1
    /\ recorded_frames # <<>>
    /\ max_level(current_level) < silence_threshold_db
    /\ recorded_frames[Len(recorded_frames)].l = 1000
    /\ \E i \in DOMAIN rec_threads : SilenceLongEnough(rec_threads[i].silence_frames + 1)
    /\ MinDurationReached(now - recording_start_time)

\* ------------------------------------------------------ one sound segment
\* Auto-mode is on and every block the stream delivers is above the
\* threshold; the main loop runs the scheduled start when it gets to it,
\* and the user may stop the session and switch auto-mode.
InitSegment ==
    /\ InitRecorder
    /\ MonitorRunning
    /\ NoTrimRun
    /\ auto_mode = TRUE
    /\ silence_duration \in FreeSilenceDurations
    /\ loud_run = 0
    /\ trim_silence_start = TRUE
    /\ trim_silence_end = TRUE
    /\ trim_threshold_db = default_trim_threshold_db

NextSegment ==
    \/ MonInputCallback
    \/ GuiAfter
    \/ GuiStartBody
    \/ GuiStopButton
    \/ GuiStopBody
    \/ ToggleAutoMode
    \/ Threads

SpecSegment == InitSegment /\ [][NextSegment]_vars

\* input_callback gets a block while auto-mode is on and no session is
\* Active.
ObservedWaiting == delivered' = delivered + 1 /\ auto_mode /\ ~is_recording

\* C37: within one sound segment at most one start_recording is scheduled:
\* in_sound_segment says whether the last block observed while auto-mode was
\* on and no session Active was above the threshold (only such a block
\* changes it), and start_recording is scheduled only by such a block that
\* finds in_sound_segment false, the first of its segment, however many
\* blocks come in before the main loop runs the scheduled start.
C37_OneStartPerSegment ==
    [][/\ after_queue' = Append(after_queue, "start_recording") =>
              (ObservedWaiting /\ ~in_sound_segment /\ in_sound_segment')
       /\ ObservedWaiting =>
              (in_sound_segment' <=> max_level(current_level') > silence_threshold_db)
       /\ ~ObservedWaiting => in_sound_segment' = in_sound_segment]_vars

\* MaxBlocks blocks, all above the threshold, have come in with auto-mode
\* on before the main loop has run anything: one start is scheduled.
C37_Witness ==
    /\ delivered = MaxBlocks
    /\ auto_mode
    /\ ~is_recording
    /\ sessions = 0
    /\ gui = GuiIdle
    /\ presses = 0
    /\ in_sound_segment
    /\ after_queue = <<"start_recording">>

\* ------------------------------------------------ blocks at the threshold
\* Blocks of a run around the threshold: exactly -40 dB on the left channel
\* only, and -60 dB on both channels.
ThresholdAmps == {<<10000, 0>>, <<1000, 1000>>}

\* Auto-mode is on and no block is above the threshold: the user records
\* with the Record and Stop buttons.
InitThreshold ==
    /\ InitRecorder
    /\ MonitorRunning
    /\ NoTrimRun
    /\ auto_mode = TRUE
    /\ silence_duration \in FreeSilenceDurations
    /\ loud_run = 0
    /\ trim_silence_start = TRUE
    /\ trim_silence_end = TRUE
    /\ trim_threshold_db = default_trim_threshold_db

ThresholdCallback ==
    /\ InputActive
    /\ delivered < MaxBlocks
    /\ \E amp \in ThresholdAmps : input_callback(amp)

NextThreshold ==
    \/ ThresholdCallback
    \/ GuiRecordButton
    \/ GuiStartBody
    \/ GuiStopButton
    \/ GuiStopBody
    \/ Threads

SpecThreshold == InitThreshold /\ [][NextThreshold]_vars

\* The louder channel of a block is exactly at the silence threshold.
AtThreshold(b) == max_level(update_levels(<<b.l, b.r>>)) = silence_threshold_db

\* C39: a block exactly at the silence threshold is neither sound nor
\* silence: when input_callback gets it in auto-mode with no session Active
\* it schedules no start and in_sound_segment is false afterwards; when the
\* collector takes it from the queue in auto-mode the silence count is not
\* incremented but becomes zero, and no stop is requested.
C39_ThresholdIsNeither ==
    [][/\ (delivered' = delivered + 1 /\ auto_mode /\ ~is_recording
              /\ max_level(current_level') = silence_threshold_db)
             => (after_queue' = after_queue /\ ~in_sound_segment')
       /\ (CollectorTakesBlock /\ auto_mode /\ AtThreshold(Head(audio_queue)))
             => \E i \in DOMAIN rec_threads :
                    /\ rec_threads[i].pc = "get"
                    /\ Len(rec_threads') = Len(rec_threads)
                    /\ rec_threads'[i].silence_frames = 0
                    /\ after_queue' = after_queue]_vars

\* -------------------------------------------- sound resuming after auto-stop
\* The blocks of a run in which the sound comes back as soon as the
\* auto-stop has taken effect: loud for loud_run blocks, then quiet until
\* stop_recording has run, then loud again.
ResumeAmp(k) ==
    IF k <= loud_run \/ (last_stop_request.requested /\ ~is_recording)
    THEN <<316228, 316228>> ELSE <<1000, 1000>>

\* The stream delivers the next block of that run, under the conditions of
\* ScenarioCallback.
ResumeCallback ==
    /\ InputActive
    /\ delivered < ScenarioBlocks
    /\ after_queue = <<>>
    /\ gui.pc = "idle"
    /\ Len(audio_queue) < ScenarioLag
    /\ input_callback(ResumeAmp(delivered + 1))

NextResume ==
    \/ ResumeCallback
    \/ GuiAfter
    \/ GuiStartBody
    \/ GuiStopBody
    \/ Threads

SpecResume == InitC /\ [][NextResume]_vars

\* C27: after an auto-stop has taken effect the controller is Waiting: the
\* next block above the threshold that input_callback gets while no session
\* is Active schedules start_recording, whatever came in between.
C27_AutoStopReturnsToWaiting ==
    [][(/\ delivered' = delivered + 1
        /\ auto_mode
        /\ ~is_recording
        /\ last_stop_request.requested
        /\ max_level(current_level') > silence_threshold_db)
       => after_queue' = Append(after_queue, "start_recording")]_vars

\* ------------------------------------------------------------------ startup
\* Settings files a run may find: is_armed as the last run saved it (line
\* 1180), a monitor volume, an output device or none.
SettingsFiles == [is_armed : BOOLEAN, monitor_volume : MonVolumes,
                  output_device_index : {NoDevice, 1}]

\* Mutation of load_settings: is_armed is restored from the file.
load_settings_restores_armed(file) ==
    [is_armed |-> file.is_armed,
     monitor_volume |-> file.monitor_volume,
     output_device_index |-> file.output_device_index]

\* load_settings (lines 1195-1222) after __init__ has set is_armed to
\* False (line 29): monitor_volume and output_device_index are taken from
\* the file, is_armed is not (line 1218).
load_settings(file) ==
    [is_armed |-> FALSE,
     monitor_volume |-> file.monitor_volume,
     output_device_index |-> file.output_device_index]

\* The state after __init__ with a settings file: start_input_monitoring is
\* about to run on the Tk thread (line 88).
InitStartup ==
    /\ InitRecorder
    /\ NoTrimRun
    /\ auto_mode = FALSE
    /\ silence_duration = default_silence_duration
    /\ loud_run = 0
    /\ trim_silence_start = TRUE
    /\ trim_silence_end = TRUE
    /\ trim_threshold_db = default_trim_threshold_db
    /\ settings \in SettingsFiles
    /\ is_armed = load_settings(settings).is_armed
    /\ monitor_volume = load_settings(settings).monitor_volume
    /\ output_device_index = load_settings(settings).output_device_index
    /\ input_device_index = 0
    /\ is_monitoring = FALSE
    /\ monitor_queue = <<>>
    /\ input_stream = 0
    /\ output_stream = 0
    /\ streams = {}
    /\ tasks = <<Task("start_input_monitoring", "in_check", "gui")>>
    /\ events = NoEvents
    /\ outdata = NoOutdata
    /\ faults = NoFaults
    /\ returned = NoReturn

InTasks ==
    \/ \E i \in DOMAIN tasks : StartInCheck(i)
    \/ \E i \in DOMAIN tasks : StartInClose(i)
    \/ \E i \in DOMAIN tasks : StartInOpen(i)
    \/ \E i \in DOMAIN tasks : StartInStart(i)

\* Startup and what the user does next: the first start of the input
\* stream, clicks on Arm, and input_callback.
NextStartup ==
    \/ InTasks
    \/ ToggleArm
    \/ OutTasks
    \/ MonInputCallback

SpecStartup == InitStartup /\ [][NextStartup]_vars

\* C25: whatever the settings file holds, until the user clicks Arm
\* is_armed is false and no output stream is open.
C25_NotArmedByStartup ==
    events.arm = 0 =>
        /\ ~is_armed
        /\ output_stream = 0
        /\ \A st \in streams : st.kind # "out"

\* The file said is_armed true; initialisation is over, the input stream
\* runs and has delivered a block, and Arm has not been clicked.
C25_Witness ==
    /\ settings.is_armed
    /\ events.arm = 0
    /\ tasks = <<>>
    /\ InputActive
    /\ delivered > 0
    /\ monitor_queue = <<>>

\* ------------------------------------------------------ on_closing in steps
\* Outcomes of abort() followed by close() in force_close_streams: both
\* return, one of them raises, or one of them does not return.
CloseResults == {"ok", "PortAudioError", "hangs"}

\* The clock of the wait in join advances by this much at a time.
JoinTick == 500

\* Everything on_closing leaves alone while it runs.
closing_fixed == <<auto_mode, in_sound_segment, current_level, audio_queue,
                   recorded_frames, buttons, after_queue, files, now, delivered,
                   presses, active_starts, captured, last_stop_request, last_save,
                   session_state, silence_duration, loud_run, trimsettings,
                   trimvars, monitor_queue, is_armed, is_monitoring, monitor_volume,
                   input_device_index, output_device_index, input_stream,
                   output_stream, outdata, faults, returned, settings>>

\* on_closing is running on the Tk thread.
Closing == \E i \in DOMAIN tasks : tasks[i].proc = "on_closing"

\* force_close_streams has returned: its thread has ended.
CloseThreadDone == \A i \in DOMAIN tasks : tasks[i].proc # "force_close_streams"

\* on_closing, lines 1228-1270: settings saved, is_recording cleared, the
\* thread on force_close_streams started.
CloseBegin ==
    /\ GuiFree
    /\ is_recording' = FALSE
    /\ tasks' = tasks \o <<Task("on_closing", "cl_join", "gui"),
                           Task("force_close_streams", "cl_out", "worker")>>
    /\ UNCHANGED <<closing_fixed, gui, hk, rec_threads, save_threads, streams,
                   events>>

\* force_close_streams, lines 1249-1254: abort and close of the output
\* stream; an exception is swallowed by the bare except.
CloseOutput(i) ==
    /\ At(i, "cl_out")
    /\ tasks[i].proc = "force_close_streams"
    /\ \E res \in (IF output_stream = 0 THEN {"ok"} ELSE CloseResults) :
        /\ streams' = StopAndClose(output_stream, IF res = "hangs" THEN "PortAudioError" ELSE res)
        /\ tasks' = Goto(i, IF res = "hangs" THEN "hung" ELSE "cl_in")
    /\ UNCHANGED <<closing_fixed, is_recording, gui, hk, rec_threads,
                   save_threads, events>>

\* force_close_streams, lines 1257-1264: the same for the input stream;
\* then the thread ends.
CloseInput(i) ==
    /\ At(i, "cl_in")
    /\ tasks[i].proc = "force_close_streams"
    /\ \E res \in (IF input_stream = 0 THEN {"ok"} ELSE CloseResults) :
        /\ streams' = StopAndClose(input_stream, IF res = "hangs" THEN "PortAudioError" ELSE res)
        /\ tasks' = IF res = "hangs" THEN Goto(i, "hung") ELSE Without(tasks, i)
    /\ UNCHANGED <<closing_fixed, is_recording, gui, hk, rec_threads,
                   save_threads, events>>

\* Time passes while the Tk thread waits in join.
CloseTick ==
    /\ \E i \in DOMAIN tasks : At(i, "cl_join")
    /\ events.waited < join_timeout
    /\ events' = [events EXCEPT !.waited = Min(@ + JoinTick, join_timeout)]
    /\ UNCHANGED <<closing_fixed, is_recording, gui, hk, rec_threads,
                   save_threads, streams, tasks>>

\* Mutation of JoinReturns: join() without a timeout.
JoinWithoutTimeout(done, waited) == done

\* Line 1273: join returns when the thread has ended or the timeout is over.
JoinReturns(done, waited) == done \/ waited >= join_timeout

CloseJoin(i) ==
    /\ At(i, "cl_join")
    /\ JoinReturns(CloseThreadDone, events.waited)
    /\ tasks' = Goto(i, "cl_destroy")
    /\ UNCHANGED <<closing_fixed, is_recording, gui, hk, rec_threads,
                   save_threads, streams, events>>

\* Lines 1276-1285: root.quit() and root.destroy() in a try with a bare
\* except, then sys.exit(0): the daemon threads and the streams end with
\* the process.
CloseDestroy(i) ==
    /\ At(i, "cl_destroy")
    /\ gui' = Exited
    /\ hk' = "exited"
    /\ rec_threads' = <<>>
    /\ save_threads' = <<>>
    /\ tasks' = <<[proc |-> "on_closing", pc |-> "exited",
                   thread |-> IF CloseThreadDone THEN "joined" ELSE "timeout"]>>
    /\ streams' = {}
    /\ UNCHANGED <<closing_fixed, is_recording, events>>

\* The state on_closing is called in: the input stream running, armed
\* with the output stream running or not armed.
InitClose ==
    /\ InitRecorder
    /\ NoTrimRun
    /\ auto_mode = FALSE
    /\ silence_duration = default_silence_duration
    /\ loud_run = 0
    /\ trim_silence_start = TRUE
    /\ trim_silence_end = TRUE
    /\ trim_threshold_db = default_trim_threshold_db
    /\ is_armed \in BOOLEAN
    /\ is_monitoring = TRUE
    /\ monitor_queue = <<>>
    /\ monitor_volume = default_monitor_volume
    /\ input_device_index = 0
    /\ output_device_index = 1
    /\ input_stream = 1
    /\ output_stream = IF is_armed THEN 2 ELSE 0
    /\ streams = IF is_armed
                 THEN {Stream(1, "in", "started", 0), Stream(2, "out", "started", 1)}
                 ELSE {Stream(1, "in", "started", 0)}
    /\ tasks = <<>>
    /\ events = NoEvents
    /\ outdata = NoOutdata
    /\ faults = NoFaults
    /\ returned = NoReturn
    /\ settings = NoSettings

CloseSteps ==
    \/ \E i \in DOMAIN tasks : CloseOutput(i)
    \/ \E i \in DOMAIN tasks : CloseInput(i)
    \/ \E i \in DOMAIN tasks : CloseJoin(i)
    \/ \E i \in DOMAIN tasks : CloseDestroy(i)

NextClose ==
    \/ CloseBegin
    \/ CloseTick
    \/ CloseSteps
    \/ MonInputCallback
    \/ OutputCallback

\* The Tk thread runs, and the clock of its timed wait advances; nothing is
\* assumed of the thread on force_close_streams.
FairClose ==
    /\ WF_vars(CloseTick)
    /\ WF_vars(\E i \in DOMAIN tasks : CloseJoin(i))
    /\ WF_vars(\E i \in DOMAIN tasks : CloseDestroy(i))

SpecClose == InitClose /\ [][NextClose]_vars /\ FairClose

C13_OutputBlockResized ==
    outdata.frames > 0 =>
        /\ outdata.written
        /\ outdata.kept + outdata.pad = outdata.frames
        /\ ~faults.escaped
        /\ outdata.empty => outdata.kept = 0 /\ outdata.block = NoBlock
        /\ ~outdata.empty =>
               /\ outdata.kept = Min(blocksize, outdata.frames)
               /\ outdata.block.id = outdata.head.id
               /\ outdata.block.l = (outdata.head.l * monitor_volume) \div 100
               /\ outdata.block.r = (outdata.head.r * monitor_volume) \div 100

\* A block of 2048 frames at volume 0.7 was padded to the 4096 asked for.
C13_Witness ==
    /\ outdata.frames = 2 * blocksize
    /\ ~outdata.empty
    /\ outdata.kept = blocksize
    /\ outdata.pad = blocksize
    /\ outdata.head.l = 100000
    /\ outdata.block.l = 70000

\* C15: an exception raised inside input_callback or output_callback is
\* caught in the callback and never reaches the audio driver; after it the
\* streams are still running, so later callbacks fire.
C15_CallbackExceptionsCaught ==
    /\ ~faults.escaped
    /\ faults.caught > 0 => InputActive /\ OutputActive

\* update_levels raised in one input_callback; a later input_callback put
\* its block on the monitor queue.
C15_Witness ==
    /\ faults.caught > 0
    /\ delivered > faults.at
    /\ \E k \in DOMAIN monitor_queue : monitor_queue[k].id > faults.at

\* ------------------------------------------- claims on streams and arming
\* Calls that are between the first and the last statement of a stop or
\* start of the input stream, of the output stream.
InTransitions ==
    {i \in DOMAIN tasks :
        tasks[i].pc \in {"rin_stop", "in_close", "in_open", "in_start"}}
OutTransitions ==
    {i \in DOMAIN tasks :
        tasks[i].pc \in {"rout_stop", "out_stop", "out_close", "out_open", "out_start"}}

\* C16: restarts of a stream are serialized: under every interleaving of
\* device changes and Arm clicks at most one start or stop is in progress
\* for each stream, and never is more than one input stream open, nor more
\* than one output stream.
C16_RestartsSerialized ==
    /\ Cardinality(InTransitions) <= 1
    /\ Cardinality(OutTransitions) <= 1
    /\ Cardinality({st \in streams : st.kind = "in"}) <= 1
    /\ Cardinality({st \in streams : st.kind = "out"}) <= 1

\* C19: when start_input_monitoring returns from a failed open or start,
\* is_monitoring is false and no input stream handle is held.
C19_FailedInputStartLeavesStopped ==
    (returned.proc = "start_input_monitoring" /\ returned.failed) =>
        ~returned.is_monitoring /\ returned.input_stream = 0

C22_FailedStopFallsBackToAbort ==
    [][\A i \in DOMAIN tasks :
          (/\ tasks[i].pc = "out_stop"
           /\ tasks' = Without(tasks, i)
           /\ output_stream # 0
           /\ output_stream' = 0)
          => ~(\E st \in streams' : st.id = output_stream)]_vars

\* C23: the monitor queue is bounded: it never holds as many blocks as
\* input_callback has been allowed to deliver in the run, so some capacity
\* below the length of the run is never exceeded.
C23_MonitorQueueBounded == Len(monitor_queue) < MaxBlocks

\* C30: an output stream exists only while armed: whenever no start, stop
\* or restart is in progress and output_stream names a running stream,
\* is_armed is true, also when the user disarmed while a restart after an
\* output device change was between its stop and its start.
C30_OutputStreamOnlyWhileArmed ==
    (/\ tasks = <<>>
     /\ \E st \in streams : st.id = output_stream /\ st.state = "started")
    => is_armed

\* The thread i of a restart after a device change opens a stream.
RestartOpens(i) ==
    /\ i \in DOMAIN tasks
    /\ tasks[i].proc \in {"restart_input_monitoring", "restart_output_monitoring"}
    /\ tasks[i].pc \in {"in_open", "out_open"}
    /\ Cardinality(streams') > Cardinality(streams)

\* C31: a device change never reconfigures a stream in place: no open
\* stream changes its device, and when the restart after a device change
\* opens a stream, no stream of that kind is open any more and the handle
\* is None, and the stream opened is on the device selected now.
C31_NoReconfigureInPlace ==
    [][/\ \A old \in streams, new \in streams' :
              old.id = new.id => old.device = new.device
       /\ \A i \in DOMAIN tasks : RestartOpens(i) =>
              \A new \in streams' \ streams :
                  /\ \A old \in streams : old.kind # new.kind
                  /\ new.kind = "in" =>
                         input_stream = 0 /\ new.device = input_device_index
                  /\ new.kind = "out" =>
                         output_stream = 0 /\ new.device = output_device_index]_vars

\* C32: whenever the input device selection changes, a capture stream is
\* then started on the device selected: the thread started on
\* restart_input_monitoring ends only out of sd.InputStream or start(), and
\* when start() has returned the stream runs on the selected device,
\* whether is_monitoring was true or false at the change.
C32_InputChangeRestartsCapture ==
    [][\A i \in DOMAIN tasks :
          (/\ tasks[i].proc = "restart_input_monitoring"
           /\ tasks' = Without(tasks, i))
          => /\ tasks[i].pc \in {"in_open", "in_start"}
             /\ (tasks[i].pc = "in_start" /\ is_monitoring') =>
                    \E st \in streams' :
                        /\ st.id = input_stream
                        /\ st.state = "started"
                        /\ st.device = input_device_index]_vars

\* ------------------------------------------------ trim_silence on its own
\* Frames of the input buffers: silent, at -60 dB, at -40 dB on the left
\* only, and at -20 dB on the right only.
TrimFrames == {Block(0, <<0, 0>>), Block(0, <<1000, 1000>>),
               Block(0, <<10000, 0>>), Block(0, <<0, 100000>>)}
\* Samples after the last whole frame: none, or 1228 (a 3 s buffer at
\* 44100 Hz is 64 frames and 1228 samples).
TailLens == {0, 132300 % frame_length}
TrimThresholds == {default_trim_threshold_db, -40, -60}

SeqsUpTo(S, n) == UNION {[1..k -> S] : k \in 0..n}

InitTrim ==
    /\ InitRecorder
    /\ MonitorRunning
    /\ auto_mode = FALSE
    /\ silence_duration = default_silence_duration
    /\ loud_run = 0
    /\ trim_silence_start \in BOOLEAN
    /\ trim_silence_end \in BOOLEAN
    /\ trim_threshold_db \in TrimThresholds
    /\ indata = NoIndata
    /\ layout = NoLayout
    /\ audio_data \in [frames : SeqsUpTo(TrimFrames, MaxFrames), tail : TailLens]
    /\ trimmed = <<>>
    /\ retrimmed = <<>>

\* trimmed = <<trim_silence(audio_data)>>
Trim ==
    /\ trimmed = <<>>
    /\ trimmed' = <<trim_silence(audio_data, trim_silence_start, trim_silence_end,
                                 trim_threshold_db)>>
    /\ UNCHANGED <<recvars, trimsettings, indata, layout, audio_data, retrimmed>>

\* retrimmed = <<trim_silence(trimmed)>>, settings unchanged
Retrim ==
    /\ trimmed # <<>>
    /\ retrimmed = <<>>
    /\ retrimmed' = <<trim_silence(trimmed[1].data, trim_silence_start,
                                   trim_silence_end, trim_threshold_db)>>
    /\ UNCHANGED <<recvars, trimsettings, indata, layout, audio_data, trimmed>>

NextTrim == Trim \/ Retrim

SpecTrim == InitTrim /\ [][NextTrim]_vars

\* ------------------------------------------------ update_levels on its own
\* RMS amplitudes of the blocks measured: digital silence, 1e-6, 3e-6,
\* 1e-5, ..., full scale.
LevelAmps == {0, 1, 3, 10, 1000, 10000, 100000, 316228, 501187, 1000000}
\* Samples per channel of the blocks measured: none, or a block.
LevelSizes == {0, blocksize}

InitLevel ==
    /\ InitRecorder
    /\ MonitorRunning
    /\ NoTrimRun
    /\ auto_mode = FALSE
    /\ silence_duration = default_silence_duration
    /\ loud_run = 0
    /\ trim_silence_start = TRUE
    /\ trim_silence_end = TRUE
    /\ trim_threshold_db = default_trim_threshold_db

\* update_levels (lines 520-529) of a block of n samples per channel.
UpdateLevels ==
    /\ ~indata.measured
    /\ \E n \in LevelSizes, l \in LevelAmps, r \in LevelAmps :
        /\ indata' = [n |-> n, l |-> l, r |-> r, measured |-> TRUE]
        /\ current_level' = <<calculate_db(Channel(n, l)), calculate_db(Channel(n, r))>>
    /\ UNCHANGED <<is_recording, auto_mode, in_sound_segment, audio_queue,
                   recorded_frames, buttons, after_queue, files, now, delivered,
                   presses, active_starts, captured, last_stop_request, last_save,
                   session_state, positions, silence_duration, loud_run,
                   trimsettings, layout, audio_data, trimmed, retrimmed,
                   monitor_queue, monstate>>

NextLevel == UpdateLevels

SpecLevel == InitLevel /\ [][NextLevel]_vars

\* C14: calculate_db returns a value of at least -100, and exactly -100 for
\* an empty block and for a block whose RMS is zero.
C14_LevelAtLeastFloor ==
    indata.measured =>
        /\ current_level[1] >= -100
        /\ current_level[2] >= -100
        /\ (indata.n = 0 \/ indata.l = 0) => current_level[1] = -100
        /\ (indata.n = 0 \/ indata.r = 0) => current_level[2] = -100

\* ------------------------------------------------------------- Scenario B
\* A buffer of lead ms of silence, tone ms of a tone and tail ms of silence;
\* silence and amp are the RMS amplitudes of the silence and of the tone.
Samples(ms) == (ms * sample_rate) \div 1000

RECURSIVE ISqrtIn(_, _, _)
ISqrtIn(x, lo, hi) ==
    IF lo = hi THEN lo
    ELSE LET mid == (lo + hi + 1) \div 2
         IN  IF mid * mid <= x THEN ISqrtIn(x, mid, hi) ELSE ISqrtIn(x, lo, mid - 1)

\* np.sqrt, to a whole number.
ISqrt(x) == ISqrtIn(x, 0, 46340)

\* Samples that [from, to) and the tone of lay have in common.
ToneSamples(lay, from, to) ==
    LET a == Max(from, Samples(lay.lead))
        b == Min(to, Samples(lay.lead) + Samples(lay.tone))
    IN  IF b > a THEN b - a ELSE 0

\* Line 513, np.sqrt(np.mean(audio_data**2)), for a frame of which cnt
\* samples are tone and the others silence: the mean square is taken in
\* units of (1e-3)^2 and its root to 1e-5.
FrameAmp(lay, cnt) ==
    LET t == lay.amp \div 1000
        q == lay.silence \div 1000
        sum == cnt * t * t + (frame_length - cnt) * q * q
    IN  10 * ISqrt(((sum * 10) \div frame_length) * 1000)

ScenarioBuffer(lay) ==
    LET n == Samples(lay.lead) + Samples(lay.tone) + Samples(lay.tail)
        amp(k) == FrameAmp(lay, ToneSamples(lay, (k - 1) * frame_length,
                                            k * frame_length))
    IN  [frames |-> [k \in 1..(n \div frame_length) |-> Block(0, <<amp(k), amp(k)>>)],
         tail |-> n % frame_length]

Layouts == [lead : {0, 500, 1000}, tone : {1000, 2000}, tail : {0, 500, 1000},
            silence : {0, 1000}, amp : {100000, 316228}]

InitB ==
    /\ InitRecorder
    /\ MonitorRunning
    /\ auto_mode = FALSE
    /\ silence_duration = default_silence_duration
    /\ loud_run = 0
    /\ trim_silence_start \in BOOLEAN
    /\ trim_silence_end \in BOOLEAN
    /\ trim_threshold_db = default_trim_threshold_db
    /\ indata = NoIndata
    /\ layout \in Layouts
    /\ audio_data = ScenarioBuffer(layout)
    /\ trimmed = <<>>
    /\ retrimmed = <<>>

NextB == Trim

SpecB == InitB /\ [][NextB]_vars

\* Scenario B: 1 s of silence, 2 s of a tone at -20 dB, 1 s of silence,
\* both trims enabled, threshold -50 dB.
IsScenarioB ==
    /\ layout.lead = 1000 /\ layout.tone = 2000 /\ layout.tail = 1000
    /\ layout.amp = 100000
    /\ trim_silence_start /\ trim_silence_end
    /\ trim_threshold_db = -50

\* C11: in Scenario B the range kept is contiguous, covers the tone, and
\* its length differs from the 88200 samples of the tone by at most one
\* frame of 2048 samples.
C11_ScenarioBKeepsTone ==
    (trimmed # <<>> /\ IsScenarioB) =>
        LET kept == trimmed[1].end_sample - trimmed[1].start_sample
        IN  /\ trimmed[1].start_sample <= Samples(layout.lead)
            /\ trimmed[1].end_sample >= Samples(layout.lead) + Samples(layout.tone)
            /\ BufLen(trimmed[1].data) = kept
            /\ kept - 88200 <= 2048
            /\ 88200 - kept <= 2048

C11_Witness ==
    /\ trimmed # <<>>
    /\ IsScenarioB
    /\ trimmed[1].start_sample > 0
    /\ trimmed[1].end_sample < BufLen(audio_data)
    /\ BufLen(trimmed[1].data) # 88200

\* Every whole frame of audio_data is at or below the trim threshold.
AllFramesSilent ==
    \A i \in 1..Len(audio_data.frames) :
        FrameLevel(audio_data.frames[i]) <= trim_threshold_db

\* C3: with both trims enabled, a buffer whose frames are all at or below
\* the trim threshold is trimmed to nothing.
C3_AllSilentTrimsToEmpty ==
    (/\ trimmed # <<>>
     /\ trim_silence_start /\ trim_silence_end
     /\ Len(audio_data.frames) >= 1
     /\ AllFramesSilent)
    => BufLen(trimmed[1].data) = 0

\* C8: trimming the trimmed buffer again, with the same flags and
\* threshold, returns it unchanged.
C8_TrimIdempotent ==
    retrimmed # <<>> => retrimmed[1].data = trimmed[1].data

C8_Witness ==
    /\ retrimmed # <<>>
    /\ trim_silence_start /\ trim_silence_end
    /\ BufLen(trimmed[1].data) > 0
    /\ BufLen(trimmed[1].data) < BufLen(audio_data)

\* C9: the sample range trim_silence keeps lies inside the buffer:
\* 0 <= start_sample <= end_sample <= len(audio_data).
C9_RangeInsideBuffer ==
    trimmed # <<>> =>
        /\ 0 <= trimmed[1].start_sample
        /\ trimmed[1].start_sample <= trimmed[1].end_sample
        /\ trimmed[1].end_sample <= BufLen(audio_data)

C9_Witness ==
    /\ trimmed # <<>>
    /\ 0 < trimmed[1].start_sample
    /\ trimmed[1].start_sample < trimmed[1].end_sample
    /\ trimmed[1].end_sample < BufLen(audio_data)

\* C29: trim_silence drops samples only at an end whose trimming is
\* enabled: with start-trimming only, the result ends at the last sample of
\* the input, whatever its length; with end-trimming only, it begins at
\* sample 0.
C29_TrimOnlyWhereEnabled ==
    (trimmed # <<>> /\ BufLen(trimmed[1].data) > 0) =>
        /\ (trim_silence_start /\ ~trim_silence_end)
               => trimmed[1].end_sample = BufLen(audio_data)
        /\ (~trim_silence_start /\ trim_silence_end)
               => trimmed[1].start_sample = 0

=============================================================================
